---- MODULE Spec2Model ----
(***************************************************************************)
(* Model of the bindgen command-line driver (src/src/main.rs): argument    *)
(* decoding, output sink selection (get_output), configuration compilation *)
(* (args_to_opts, with its --link parser), and the generate/write dispatch *)
(* of main with its exit statuses.                                         *)
(*                                                                         *)
(* Text that the code splits ("--link", "--macro-int-types",               *)
(* "--ctypes-prefix") is a sequence of one-character strings; text the     *)
(* code only copies or compares whole is a TLA+ string.                    *)
(***************************************************************************)
EXTENDS Integers, Sequences, FiniteSets, TLC

VARIABLES
    pc,         \* index into MainSteps of the next statement of main
    running,    \* TRUE until the process has exited
    status,     \* exit status of the process, meaningful once ~running
    loggerSet,  \* the process-wide logger has been installed
    args,       \* Option<Args>: the decoded command line
    output,     \* Option<Box<Write>>: the sink returned by get_output
    builder,    \* Option<Builder>: the configuration returned by args_to_opts
    bindings,   \* Option<Bindings>: the artifact returned by generate()
    fs,         \* the file system: path -> [exists, content]
    fs0,        \* the file system as it was when the process started
    stdout,     \* what has been written to standard output
    stderr,     \* what has been written to standard error
    steps       \* history: the statements of main executed so far, with results

vars == <<pc, running, status, loggerSet, args, output, builder, bindings,
          fs, fs0, stdout, stderr, steps>>

-----------------------------------------------------------------------------
(* Bounds of the model.                                                    *)

MaxLinkChunks == 3      \* a --link value is made of at most this many chunks
MaxClangArgs == 2       \* length of the pass-through clang argument list
MaxMacroLen == 3        \* characters in a --macro-int-types value
MaxMatch == 2           \* number of --match occurrences
ArtifactLen == 2        \* number of pieces the generated artifact is written in

-----------------------------------------------------------------------------
(* Text.                                                                   *)

None == [some |-> FALSE, val |-> <<>>]
Some(v) == [some |-> TRUE, val |-> v]

STATIC == <<"s","t","a","t","i","c">>
DYNAMIC == <<"d","y","n","a","m","i","c">>
FRAMEWORK == <<"f","r","a","m","e","w","o","r","k">>
EQ == <<"=">>
COMMA == <<",">>
COLONS == <<":",":">>

RECURSIVE SplitFrom(_, _, _, _)
SplitFrom(s, pat, i, cur) ==
    IF i > Len(s) THEN <<cur>>
    ELSE IF i + Len(pat) - 1 <= Len(s) /\ SubSeq(s, i, i + Len(pat) - 1) = pat
         THEN <<cur>> \o SplitFrom(s, pat, i + Len(pat), <<>>)
         ELSE SplitFrom(s, pat, i + 1, Append(cur, s[i]))

\* str::split(pat): the pieces between the non-overlapping matches of pat,
\* leftmost first; a text without a match (the empty text too) is one piece.
split(s, pat) == SplitFrom(s, pat, 1, <<>>)

\* Iterator::next() called n times on a fresh iterator over `pieces`.
nth_next(pieces, n) == IF n <= Len(pieces) THEN Some(pieces[n]) ELSE None

RECURSIVE Flatten(_)
Flatten(ss) == IF ss = <<>> THEN <<>> ELSE Head(ss) \o Flatten(Tail(ss))

RECURSIVE SeqsUpTo(_, _)
SeqsUpTo(S, n) ==
    IF n = 0 THEN {<<>>}
    ELSE LET shorter == SeqsUpTo(S, n - 1)
         IN  shorter \cup {Append(q, x) : q \in shorter, x \in S}

SeqToSet(s) == {s[i] : i \in 1..Len(s)}

-----------------------------------------------------------------------------
(* The decoded command line (struct Args) and the inputs enumerated.       *)

BoolFlags == {"flag_builtins", "flag_emit_clang_ast", "flag_use_core",
              "flag_no_derive_debug", "flag_no_rust_enums",
              "flag_dont_convert_floats", "flag_convert_macros",
              "flag_allow_unknown_types"}

\* What docopt decodes from `bindgen foo.h`: the [default: ...] values of USAGE,
\* absent options as None, absent switches as false, absent lists empty.
DefaultArgs ==
    [arg_file |-> "foo.h",
     arg_clang_args |-> <<>>,
     flag_link |-> None,
     flag_output |-> "-",
     flag_match |-> <<>>,
     flag_builtins |-> FALSE,
     flag_emit_clang_ast |-> FALSE,
     flag_override_enum_type |-> "",
     flag_ctypes_prefix |-> <<"s","t","d",":",":","o","s",":",":","r","a","w">>,
     flag_use_core |-> FALSE,
     flag_remove_prefix |-> None,
     flag_no_derive_debug |-> FALSE,
     flag_no_rust_enums |-> FALSE,
     flag_dont_convert_floats |-> FALSE,
     flag_convert_macros |-> FALSE,
     flag_macro_int_types |-> None,
     flag_allow_unknown_types |-> FALSE]

\* --link values: every concatenation of at most MaxLinkChunks chunks.
LinkChunks == {STATIC, DYNAMIC, FRAMEWORK, <<"S","t","a","t","i","c">>,
               <<"f","o","o">>, EQ}
LinkValues == {Flatten(cs) : cs \in SeqsUpTo(LinkChunks, MaxLinkChunks)}
LinkOptions == {None} \cup {Some(v) : v \in LinkValues}

\* --output values: standard output, a path whose file can be created, and a
\* path whose directory does not exist.
OutputTokens == {"-", "out.rs", "nodir/out.rs"}
Paths == OutputTokens \ {"-"}
Creatable == {"out.rs"}

ClangArgLists == SeqsUpTo({"-Iinc", "-DX"}, MaxClangArgs)
MatchLists == SeqsUpTo({"foo", "bar"}, MaxMatch)
MacroValues == SeqsUpTo({"u", ","}, MaxMacroLen)
MacroOptions == {None} \cup {Some(v) : v \in MacroValues}
CtypesValues == {DefaultArgs.flag_ctypes_prefix, <<"a",":",":","b">>,
                 <<"a",":",":",":","b">>, <<"a">>, <<>>}
RemovePrefixOptions == {None, Some(<<"l","i","b","_">>)}
EnumTypes == {"", "uint"}

FlagSettings == [BoolFlags -> BOOLEAN]

WithFlags(a, f) ==
    [a EXCEPT !.flag_builtins = f["flag_builtins"],
              !.flag_emit_clang_ast = f["flag_emit_clang_ast"],
              !.flag_use_core = f["flag_use_core"],
              !.flag_no_derive_debug = f["flag_no_derive_debug"],
              !.flag_no_rust_enums = f["flag_no_rust_enums"],
              !.flag_dont_convert_floats = f["flag_dont_convert_floats"],
              !.flag_convert_macros = f["flag_convert_macros"],
              !.flag_allow_unknown_types = f["flag_allow_unknown_types"]]

\* The command lines decoded: every --link value with every --output value;
\* every combination of the switches; every clang argument list with every
\* --macro-int-types value; the remaining options.
ArgsSet ==
    {[DefaultArgs EXCEPT !.flag_link = l, !.flag_output = o] :
        l \in LinkOptions, o \in OutputTokens}
    \cup {WithFlags([DefaultArgs EXCEPT !.flag_link = l], f) :
        f \in FlagSettings, l \in {None, Some(STATIC \o EQ \o <<"f","o","o">>)}}
    \cup {[DefaultArgs EXCEPT !.arg_clang_args = c, !.flag_macro_int_types = m] :
        c \in ClangArgLists, m \in MacroOptions}
    \cup {[DefaultArgs EXCEPT !.flag_match = p, !.flag_ctypes_prefix = c,
                              !.flag_remove_prefix = r,
                              !.flag_override_enum_type = e] :
        p \in MatchLists, c \in CtypesValues, r \in RemovePrefixOptions,
        e \in EnumTypes}

-----------------------------------------------------------------------------
(* bindgen::Builder, as args_to_opts uses it: one field per setter.        *)

Builder_new(file) ==
    [file |-> file,
     emit_ast |-> FALSE,
     ctypes_prefix |-> <<>>,
     use_core |-> FALSE,
     derive_debug |-> TRUE,
     rust_enums |-> TRUE,
     override_enum_ty |-> "",
     convert_macros |-> FALSE,
     clang_args |-> <<>>,
     match_pat |-> <<>>,
     remove_prefix |-> None,
     macro_int_types |-> None,
     builtins |-> FALSE,
     dont_convert_floats |-> FALSE,
     allow_unknown_types |-> FALSE,
     links |-> <<>>]

Builder_clang_arg(b, arg) == [b EXCEPT !.clang_args = Append(@, arg)]
Builder_match_pat(b, pat) == [b EXCEPT !.match_pat = Append(@, pat)]
Builder_remove_prefix(b, s) == [b EXCEPT !.remove_prefix = Some(s)]
Builder_macro_int_types(b, tokens) == [b EXCEPT !.macro_int_types = Some(tokens)]
Builder_builtins(b) == [b EXCEPT !.builtins = TRUE]
Builder_dont_convert_floats(b) == [b EXCEPT !.dont_convert_floats = TRUE]
Builder_allow_unknown_types(b) == [b EXCEPT !.allow_unknown_types = TRUE]
Builder_link(b, lib, kind) ==
    [b EXCEPT !.links = Append(@, [library |-> lib, kind |-> kind])]

-----------------------------------------------------------------------------
(* args_to_opts, statement by statement.                                   *)

\* A line printed with println!: the fixed text and the value formatted into it.
Line(text, arg) == [t |-> text, v |-> arg, n |-> 0]

\* Faulty variant of opts_chain: derive_debug set without the negation.
opts_chain_negated(b, a) ==
    [b EXCEPT !.emit_ast = a.flag_emit_clang_ast,
              !.ctypes_prefix = split(a.flag_ctypes_prefix, COLONS),
              !.use_core = a.flag_use_core,
              !.derive_debug = a.flag_no_derive_debug,
              !.rust_enums = ~a.flag_no_rust_enums,
              !.override_enum_ty = a.flag_override_enum_type,
              !.convert_macros = a.flag_convert_macros]

\* builder.emit_ast(..).ctypes_prefix(..).use_core(..).derive_debug(..)
\*        .rust_enums(..).override_enum_ty(..).convert_macros(..)
opts_chain(b, a) ==
    [b EXCEPT !.emit_ast = a.flag_emit_clang_ast,
              !.ctypes_prefix = split(a.flag_ctypes_prefix, COLONS),
              !.use_core = a.flag_use_core,
              !.derive_debug = ~a.flag_no_derive_debug,
              !.rust_enums = ~a.flag_no_rust_enums,
              !.override_enum_ty = a.flag_override_enum_type,
              !.convert_macros = a.flag_convert_macros]

\* Faulty variant of opts_clang_args: the arguments are added last to first.
RECURSIVE opts_clang_args_reversed(_, _)
opts_clang_args_reversed(b, list) ==
    IF list = <<>> THEN b
    ELSE Builder_clang_arg(opts_clang_args_reversed(b, Tail(list)), Head(list))

\* for arg in args.arg_clang_args { builder.clang_arg(arg); }
RECURSIVE opts_clang_args(_, _)
opts_clang_args(b, list) ==
    IF list = <<>> THEN b
    ELSE opts_clang_args(Builder_clang_arg(b, Head(list)), Tail(list))

\* for flag_match in args.flag_match { builder.match_pat(flag_match); }
RECURSIVE opts_match(_, _)
opts_match(b, list) ==
    IF list = <<>> THEN b
    ELSE opts_match(Builder_match_pat(b, Head(list)), Tail(list))

\* if let Some(s) = args.flag_remove_prefix { builder.remove_prefix(s); }
opts_remove_prefix(b, a) ==
    IF a.flag_remove_prefix.some
    THEN Builder_remove_prefix(b, a.flag_remove_prefix.val)
    ELSE b

\* Faulty variant of opts_macro_int_types: an empty value is treated as absent.
opts_macro_int_types_skip_empty(b, a) ==
    IF a.flag_macro_int_types.some /\ a.flag_macro_int_types.val # <<>>
    THEN Builder_macro_int_types(b, split(a.flag_macro_int_types.val, COMMA))
    ELSE b

\* if let Some(s) = args.flag_macro_int_types { builder.macro_int_types(s.split(',')); }
opts_macro_int_types(b, a) ==
    IF a.flag_macro_int_types.some
    THEN Builder_macro_int_types(b, split(a.flag_macro_int_types.val, COMMA))
    ELSE b

\* if args.flag_builtins { .. } if args.flag_dont_convert_floats { .. }
\* if args.flag_allow_unknown_types { .. }
opts_switches(b, a) ==
    LET b1 == IF a.flag_builtins THEN Builder_builtins(b) ELSE b
        b2 == IF a.flag_dont_convert_floats THEN Builder_dont_convert_floats(b1) ELSE b1
    IN  IF a.flag_allow_unknown_types THEN Builder_allow_unknown_types(b2) ELSE b2

LinkOk(lib, kind) ==
    [exit |-> FALSE, code |-> 0, out |-> <<>>, lib |-> lib, kind |-> kind]
LinkExit(code, line) ==
    [exit |-> TRUE, code |-> code, out |-> <<line>>, lib |-> <<>>, kind |-> ""]

\* Faulty variant of link_match: an unknown kind falls back to Dynamic.
link_match_lenient(link) ==
    LET parts == split(link, EQ)
        first == nth_next(parts, 1)
        second == nth_next(parts, 2)
    IN  IF first.some /\ ~second.some
        THEN LinkOk(first.val, "Dynamic")
        ELSE IF first.some /\ second.some
        THEN IF first.val = STATIC THEN LinkOk(second.val, "Static")
             ELSE IF first.val = FRAMEWORK THEN LinkOk(second.val, "Framework")
             ELSE LinkOk(second.val, "Dynamic")
        ELSE LinkExit(1, Line("Wrong link format: ", link))

\* Faulty variant of link_match: the kind token is taken as the library name.
link_match_swapped(link) ==
    LET parts == split(link, EQ)
        first == nth_next(parts, 1)
        second == nth_next(parts, 2)
    IN  IF first.some /\ ~second.some
        THEN LinkOk(first.val, "Dynamic")
        ELSE IF first.some /\ second.some
        THEN IF first.val = STATIC THEN LinkOk(first.val, "Static")
             ELSE IF first.val = DYNAMIC THEN LinkOk(first.val, "Dynamic")
             ELSE IF first.val = FRAMEWORK THEN LinkOk(first.val, "Framework")
             ELSE LinkExit(1, Line("Link type unknown: ", first.val))
        ELSE LinkExit(1, Line("Wrong link format: ", link))

\* let mut parts = link.split('=');
\* let (lib, kind) = match (parts.next(), parts.next()) { .. };
link_match(link) ==
    LET parts == split(link, EQ)
        first == nth_next(parts, 1)
        second == nth_next(parts, 2)
    IN  IF first.some /\ ~second.some
        THEN LinkOk(first.val, "Dynamic")
        ELSE IF first.some /\ second.some
        THEN IF first.val = STATIC THEN LinkOk(second.val, "Static")
             ELSE IF first.val = DYNAMIC THEN LinkOk(second.val, "Dynamic")
             ELSE IF first.val = FRAMEWORK THEN LinkOk(second.val, "Framework")
             ELSE LinkExit(1, Line("Link type unknown: ", first.val))
        ELSE LinkExit(1, Line("Wrong link format: ", link))

\* The whole function: the builder it returns, or the exit it makes.
args_to_opts(a) ==
    LET b0 == Builder_new(a.arg_file)
        b1 == opts_chain(b0, a)
        b2 == opts_clang_args(b1, a.arg_clang_args)
        b3 == opts_match(b2, a.flag_match)
        b4 == opts_remove_prefix(b3, a)
        b5 == opts_macro_int_types(b4, a)
        b6 == opts_switches(b5, a)
        l  == link_match(a.flag_link.val)
    IN  IF ~a.flag_link.some
        THEN [exit |-> FALSE, code |-> 0, out |-> <<>>, builder |-> b6]
        ELSE IF l.exit
        THEN [exit |-> TRUE, code |-> l.code, out |-> l.out, builder |-> b6]
        ELSE [exit |-> FALSE, code |-> 0, out |-> <<>>,
              builder |-> Builder_link(b6, l.lib, l.kind)]

-----------------------------------------------------------------------------
(* get_output and the statements of main.                                  *)

\* The generated artifact: the pieces Bindings::write sends to the sink.
Artifact == [i \in 1..ArtifactLen |-> [t |-> "bindings", v |-> <<>>, n |-> i]]
OldContent == <<[t |-> "old", v |-> <<>>, n |-> 0]>>

Stdout == [kind |-> "stdout", path |-> "-"]
FileSink(o) == [kind |-> "file", path |-> o]

\* std::process::exit(code): the status the parent process sees.
exit_status(code) == code % 256
\* The status of a process that ends by a panic of its main thread.
PanicStatus == 101

\* File::create(o): creates the file or truncates it; fails where it cannot.
File_create(o, filesys) ==
    IF o \in Creatable
    THEN [ok |-> TRUE, fs |-> [filesys EXCEPT ![o] = [exists |-> TRUE, content |-> <<>>]]]
    ELSE [ok |-> FALSE, fs |-> filesys]

\* Opening without truncation, as OpenOptions::append would.
File_open_append(o, filesys) ==
    IF o \in Creatable
    THEN [ok |-> TRUE,
          fs |-> [filesys EXCEPT ![o] = [exists |-> TRUE, content |-> @.content]]]
    ELSE [ok |-> FALSE, fs |-> filesys]

\* Faulty variant of get_output: the file is opened without being truncated.
get_output_no_truncate(o, filesys) ==
    IF o = "-"
    THEN [panic |-> FALSE, sink |-> Some(Stdout), fs |-> filesys, err |-> <<>>]
    ELSE LET f == File_open_append(o, filesys)
         IN  IF f.ok
             THEN [panic |-> FALSE, sink |-> Some(FileSink(o)), fs |-> f.fs, err |-> <<>>]
             ELSE [panic |-> TRUE, sink |-> None, fs |-> f.fs,
                   err |-> <<[t |-> "unwritable", v |-> <<o>>, n |-> 0]>>]

\* fn get_output(o: &str) -> Box<Write>
get_output(o, filesys) ==
    IF o = "-"
    THEN [panic |-> FALSE, sink |-> Some(Stdout), fs |-> filesys, err |-> <<>>]
    ELSE LET f == File_create(o, filesys)
         IN  IF f.ok
             THEN [panic |-> FALSE, sink |-> Some(FileSink(o)), fs |-> f.fs, err |-> <<>>]
             ELSE [panic |-> TRUE, sink |-> None, fs |-> f.fs,
                   err |-> <<[t |-> "unwritable", v |-> <<o>>, n |-> 0]>>]

\* docopt's Error::exit(): the help request prints the usage to standard output
\* and exits 0; every other decode error prints to standard error and exits 1.
docopt_exit(err) == IF err = "help" THEN 0 ELSE 1
DecodeErrors == {"help", "usage"}

\* Faulty variant of MainSteps: the sink is resolved after the configuration.
MainStepsSinkLate ==
    <<"init_logging", "decode", "args_to_opts", "get_output", "generate", "write">>

\* The statements of main, in program order.
MainSteps ==
    <<"init_logging", "decode", "get_output", "args_to_opts", "generate", "write">>

\* Faulty variant of main_on_generate: Err(()) exits with status 0.
main_on_generate_ignore_err(res) ==
    IF res = "Ok" THEN [exit |-> FALSE, code |-> 0] ELSE [exit |-> TRUE, code |-> 0]

\* match builder.generate() { Ok(bindings) => .., Err(()) => exit(-1) }
main_on_generate(res) ==
    IF res = "Ok" THEN [exit |-> FALSE, code |-> 0] ELSE [exit |-> TRUE, code |-> -1]

\* match bindings.write(output) { Ok(()) => (), Err(e) => { error!(..); exit(-1) } }
main_on_write(res) ==
    IF res = "Ok"
    THEN [exit |-> FALSE, code |-> 0, err |-> <<>>]
    ELSE [exit |-> TRUE, code |-> -1,
          err |-> <<[t |-> "Unable to write bindings to file. ", v |-> <<>>, n |-> 0]>>]

At(step) == running /\ pc <= Len(MainSteps) /\ MainSteps[pc] = step
Record(step, result) == Append(steps, [step |-> step, result |-> result])

Init ==
    /\ pc = 1
    /\ running = TRUE
    /\ status = 0
    /\ loggerSet = FALSE
    /\ args = None
    /\ output = None
    /\ builder = None
    /\ bindings = None
    /\ fs \in [Paths -> {[exists |-> FALSE, content |-> <<>>],
                         [exists |-> TRUE, content |-> OldContent]}]
    /\ \A p \in Paths \ Creatable : ~fs[p].exists
    /\ fs0 = fs
    /\ stdout = <<>>
    /\ stderr = <<>>
    /\ steps = <<>>

\* env_logger::LogBuilder::new().parse("bindgen=warn").init().unwrap()
InitLogging ==
    /\ At("init_logging")
    /\ ~loggerSet
    /\ loggerSet' = TRUE
    /\ pc' = pc + 1
    /\ steps' = Record("init_logging", "ok")
    /\ UNCHANGED <<running, status, args, output, builder, bindings, fs, fs0,
                   stdout, stderr>>

\* Docopt::new(USAGE).and_then(|d| d.decode()) returns Ok(args)
DecodeOk ==
    /\ At("decode")
    /\ \E a \in ArgsSet : args' = Some(a)
    /\ pc' = pc + 1
    /\ steps' = Record("decode", "ok")
    /\ UNCHANGED <<running, status, loggerSet, output, builder, bindings, fs, fs0,
                   stdout, stderr>>

\* ... returns Err(e): .unwrap_or_else(|e| e.exit())
DecodeErr ==
    /\ At("decode")
    /\ \E e \in DecodeErrors :
         /\ steps' = Record("decode", e)
         /\ status' = exit_status(docopt_exit(e))
         /\ IF e = "help"
            THEN stdout' = Append(stdout, Line("USAGE", <<>>)) /\ stderr' = stderr
            ELSE stderr' = Append(stderr, Line("USAGE", <<>>)) /\ stdout' = stdout
    /\ running' = FALSE
    /\ UNCHANGED <<pc, loggerSet, args, output, builder, bindings, fs, fs0>>

\* let output = get_output(&args.flag_output);
GetOutput ==
    /\ At("get_output")
    /\ LET r == get_output(args.val.flag_output, fs)
       IN  /\ fs' = r.fs
           /\ output' = r.sink
           /\ stderr' = stderr \o r.err
           /\ IF r.panic
              THEN /\ running' = FALSE
                   /\ status' = PanicStatus
                   /\ pc' = pc
                   /\ steps' = Record("get_output", "panic")
              ELSE /\ pc' = pc + 1
                   /\ steps' = Record("get_output", "ok")
                   /\ UNCHANGED <<running, status>>
    /\ UNCHANGED <<loggerSet, args, builder, bindings, fs0, stdout>>

\* let builder = args_to_opts(args);
ArgsToOpts ==
    /\ At("args_to_opts")
    /\ LET r == args_to_opts(args.val)
       IN  /\ stdout' = stdout \o r.out
           /\ IF r.exit
              THEN /\ running' = FALSE
                   /\ status' = exit_status(r.code)
                   /\ pc' = pc
                   /\ builder' = builder
                   /\ steps' = Record("args_to_opts", "exit")
              ELSE /\ builder' = Some(r.builder)
                   /\ pc' = pc + 1
                   /\ steps' = Record("args_to_opts", "ok")
                   /\ UNCHANGED <<running, status>>
    /\ UNCHANGED <<loggerSet, args, output, bindings, fs, fs0, stderr>>

\* match builder.generate() { .. }: the engine answers Ok(bindings) or Err(()).
Generate ==
    /\ At("generate")
    /\ builder.some
    /\ \E res \in {"Ok", "Err"} :
         LET m == main_on_generate(res)
         IN  /\ steps' = Record("generate", res)
             /\ IF m.exit
                THEN /\ running' = FALSE
                     /\ status' = exit_status(m.code)
                     /\ UNCHANGED <<pc, bindings>>
                ELSE /\ bindings' = Some(Artifact)
                     /\ pc' = pc + 1
                     /\ UNCHANGED <<running, status>>
    /\ UNCHANGED <<loggerSet, args, output, builder, fs, fs0, stdout, stderr>>

\* match bindings.write(output) { .. }: Ok(()) after every piece has reached the
\* sink, Err(e) after some of them (possibly none) have; then main returns or exits.
Write ==
    /\ At("write")
    /\ bindings.some /\ output.some
    /\ \E res \in {"Ok", "Err"} : \E k \in 0..Len(bindings.val) :
         LET m == main_on_write(res)
             written == SubSeq(bindings.val, 1, k)
         IN  /\ res = "Ok" <=> k = Len(bindings.val)
             /\ IF output.val.kind = "stdout"
                THEN stdout' = stdout \o written /\ fs' = fs
                ELSE /\ fs' = [fs EXCEPT ![output.val.path].content = @ \o written]
                     /\ stdout' = stdout
             /\ stderr' = stderr \o m.err
             /\ steps' = Record("write", res)
             /\ status' = IF m.exit THEN exit_status(m.code) ELSE 0
    /\ running' = FALSE
    /\ pc' = pc + 1
    /\ UNCHANGED <<loggerSet, args, output, builder, bindings, fs0>>

Next ==
    \/ InitLogging
    \/ DecodeOk
    \/ DecodeErr
    \/ GetOutput
    \/ ArgsToOpts
    \/ Generate
    \/ Write

Spec == Init /\ [][Next]_vars

-----------------------------------------------------------------------------
(* Vocabulary of the properties.                                           *)

Exited == ~running
Did(step) == \E i \in 1..Len(steps) : steps[i].step = step
ResultOf(step) == (CHOOSE r \in SeqToSet(steps) : r.step = step).result
Succeeded(step) == Did(step) /\ ResultOf(step) \in {"ok", "Ok"}
LastStep == steps[Len(steps)]

CountOf(s, c) == Cardinality({i \in 1..Len(s) : s[i] = c})
FirstIndexOf(s, c) == CHOOSE i \in 1..Len(s) : s[i] = c /\ \A j \in 1..(i - 1) : s[j] # c
\* The text in front of the first `=` of a --link value that has one.
KindToken(s) == SubSeq(s, 1, FirstIndexOf(s, "=") - 1)

RECURSIVE Join(_, _)
Join(pieces, sep) ==
    IF Len(pieces) = 0 THEN <<>>
    ELSE IF Len(pieces) = 1 THEN pieces[1]
    ELSE pieces[1] \o sep \o Join(Tail(pieces), sep)

KindWords == {STATIC, DYNAMIC, FRAMEWORK}
KindOf(word) ==
    IF word = STATIC THEN "Static" ELSE IF word = DYNAMIC THEN "Dynamic" ELSE "Framework"

LinkGiven == args.some /\ args.val.flag_link.some
LinkValue == args.val.flag_link.val
LinkDiagnostics == {i \in 1..Len(stdout) :
                      stdout[i].t \in {"Link type unknown: ", "Wrong link format: "}}

AllStepsSucceeded ==
    /\ Succeeded("decode") /\ Succeeded("get_output") /\ Succeeded("args_to_opts")
    /\ Succeeded("generate") /\ Succeeded("write")

\* What the destination named by --output has received from this process.
Destination ==
    IF args.val.flag_output = "-" THEN stdout
    ELSE IF output.some THEN fs[args.val.flag_output].content
    ELSE <<>>

-----------------------------------------------------------------------------
(* C1.                                                                     *)

\* C1 (as stated): a finished run has exit status 0 if and only if decoding, sink
\* creation, link parsing, generate() and the write all succeeded; a failed
\* generate() or write gives a nonzero status.
C1_ExitZeroIffAllSucceeded ==
    Exited =>
      /\ status = 0 <=> AllStepsSucceeded
      /\ (Did("generate") /\ ResultOf("generate") = "Err") => status # 0
      /\ (Did("write") /\ ResultOf("write") = "Err") => status # 0

\* C1 (amended): a finished run has exit status 0 if and only if either the
\* decoder was asked for help, or decoding, sink creation, link parsing,
\* generate() and the write all succeeded; a failed generate() or write gives a
\* nonzero status.
C1_ExitZeroIffSucceededOrHelp ==
    Exited =>
      /\ status = 0 <=> (AllStepsSucceeded \/ (Did("decode") /\ ResultOf("decode") = "help"))
      /\ (Did("generate") /\ ResultOf("generate") = "Err") => status # 0
      /\ (Did("write") /\ ResultOf("write") = "Err") => status # 0

C1_Witness == Exited /\ AllStepsSucceeded /\ status = 0

-----------------------------------------------------------------------------
(* C2.                                                                     *)

\* C2: the statements run in the order logging, decoding, sink, configuration,
\* generate, write, each at most once; only the last statement run may have
\* failed, and a failed statement ends the run.
C2_StepOrder ==
    LET order == <<"init_logging", "decode", "get_output", "args_to_opts",
                   "generate", "write">>
    IN  /\ Len(steps) <= Len(order)
        /\ \A i \in 1..Len(steps) : steps[i].step = order[i]
        /\ \A i \in 1..(Len(steps) - 1) : steps[i].result \in {"ok", "Ok"}
        /\ (steps # <<>> /\ LastStep.result \notin {"ok", "Ok"}) => Exited
        /\ Did("generate") => output.some
        /\ Did("write") => Succeeded("generate")

C2_Witness == Exited /\ Did("write") /\ ResultOf("write") = "Err" /\ Len(steps) = 6

-----------------------------------------------------------------------------
(* C3.                                                                     *)

\* C3: once args_to_opts has run on a --link value that is empty or holds more
\* than one `=`, the run has ended with a nonzero status, a diagnostic is on
\* standard output and no configuration with a LinkDirective exists.
C3_MalformedLinkRejected ==
    (Did("args_to_opts") /\ LinkGiven
       /\ (LinkValue = <<>> \/ CountOf(LinkValue, "=") > 1))
    => /\ Exited /\ status # 0
       /\ LinkDiagnostics # {}
       /\ ~builder.some

-----------------------------------------------------------------------------
(* C4.                                                                     *)

\* C4: once args_to_opts has run on a --link value with a `=` whose kind token is
\* none of static, dynamic, framework, the run has ended with a nonzero status,
\* a diagnostic naming the kind token is on standard output, and generate() has
\* not been invoked.
C4_UnknownKindRejected ==
    (Did("args_to_opts") /\ LinkGiven /\ CountOf(LinkValue, "=") >= 1
       /\ KindToken(LinkValue) \notin KindWords)
    => /\ Exited /\ status # 0
       /\ \E i \in 1..Len(stdout) :
            stdout[i].t = "Link type unknown: " /\ stdout[i].v = KindToken(LinkValue)
       /\ ~Did("generate")

C4_Witness ==
    /\ Did("args_to_opts") /\ LinkGiven
    /\ LinkValue = <<"S","t","a","t","i","c">> \o EQ \o <<"f","o","o">>
    /\ Exited /\ status = 1

-----------------------------------------------------------------------------
(* C5.                                                                     *)

\* C5: the configuration returned by args_to_opts holds no LinkDirective when
\* --link is absent; exactly one, (whole value, Dynamic), when the value has no
\* `=`; exactly one, (lib, matching kind), when the value is kind=lib with one
\* `=` and kind one of static, dynamic, framework.
C5_LinkDirective ==
    Did("args_to_opts") =>
      /\ ~LinkGiven => (builder.some /\ builder.val.links = <<>>)
      /\ (LinkGiven /\ CountOf(LinkValue, "=") = 0) =>
           /\ builder.some
           /\ builder.val.links = <<[library |-> LinkValue, kind |-> "Dynamic"]>>
      /\ \A w \in KindWords :
           (/\ LinkGiven /\ CountOf(LinkValue, "=") = 1
            /\ Len(LinkValue) > Len(w)
            /\ SubSeq(LinkValue, 1, Len(w) + 1) = w \o EQ) =>
             /\ builder.some
             /\ builder.val.links =
                  <<[library |-> SubSeq(LinkValue, Len(w) + 2, Len(LinkValue)),
                     kind |-> KindOf(w)]>>

C5_Witness ==
    /\ Did("args_to_opts") /\ LinkGiven
    /\ LinkValue = FRAMEWORK \o EQ \o <<"f","o","o">>
    /\ builder.some
    /\ builder.val.links = <<[library |-> <<"f","o","o">>, kind |-> "Framework"]>>

-----------------------------------------------------------------------------
(* C6.                                                                     *)

\* C6: when a run has ended, the destination named by --output has received
\* either the whole artifact or nothing.
C6_AllOrNothing ==
    (Exited /\ args.some) => Destination \in {<<>>, Artifact}

-----------------------------------------------------------------------------
(* C7.                                                                     *)

MacroGiven == args.val.flag_macro_int_types.some
MacroValue == args.val.flag_macro_int_types.val

\* C7 (as stated): in the configuration returned by args_to_opts the macro integer
\* types are not set when --macro-int-types is absent, set with zero tokens when
\* its value is empty, and set to the value's comma-separated pieces otherwise.
C7_MacroIntTypesEmptyIsNoTokens ==
    builder.some =>
      /\ ~MacroGiven => ~builder.val.macro_int_types.some
      /\ (MacroGiven /\ MacroValue = <<>>) =>
           /\ builder.val.macro_int_types.some
           /\ Len(builder.val.macro_int_types.val) = 0
      /\ (MacroGiven /\ MacroValue # <<>>) =>
           /\ builder.val.macro_int_types.some
           /\ Join(builder.val.macro_int_types.val, COMMA) = MacroValue
           /\ \A i \in 1..Len(builder.val.macro_int_types.val) :
                CountOf(builder.val.macro_int_types.val[i], ",") = 0

\* C7 (amended): the macro integer types are not set when --macro-int-types is
\* absent; when it is present they are set to the value's comma-separated pieces
\* in order, which for the empty value is one token, the empty one.
C7_MacroIntTypesPieces ==
    builder.some =>
      /\ ~MacroGiven => ~builder.val.macro_int_types.some
      /\ MacroGiven =>
           /\ builder.val.macro_int_types.some
           /\ Len(builder.val.macro_int_types.val) = CountOf(MacroValue, ",") + 1
           /\ Join(builder.val.macro_int_types.val, COMMA) = MacroValue
           /\ \A i \in 1..Len(builder.val.macro_int_types.val) :
                CountOf(builder.val.macro_int_types.val[i], ",") = 0
      /\ (MacroGiven /\ MacroValue = <<>>) => builder.val.macro_int_types.val = << <<>> >>

C7_Witness ==
    /\ builder.some /\ MacroGiven /\ MacroValue = <<>>
    /\ builder.val.macro_int_types = Some(<< <<>> >>)

-----------------------------------------------------------------------------
(* C8.                                                                     *)

\* C8: the clang arguments of the configuration returned by args_to_opts are the
\* pass-through arguments of the command line: same length, elements and order.
C8_ClangArgsPreserved ==
    builder.some =>
      /\ Len(builder.val.clang_args) = Len(args.val.arg_clang_args)
      /\ \A i \in 1..Len(args.val.arg_clang_args) :
           builder.val.clang_args[i] = args.val.arg_clang_args[i]

C8_Witness ==
    /\ builder.some
    /\ Len(args.val.arg_clang_args) = MaxClangArgs
    /\ args.val.arg_clang_args[1] # args.val.arg_clang_args[MaxClangArgs]
    /\ builder.val.clang_args = args.val.arg_clang_args

-----------------------------------------------------------------------------
(* C9.                                                                     *)

\* C9: in the configuration returned by args_to_opts, derive_debug and rust_enums
\* are the negations of --no-derive-debug and --no-rust-enums, and each other
\* toggle equals its own switch.
C9_Toggles ==
    builder.some =>
      /\ builder.val.derive_debug = ~args.val.flag_no_derive_debug
      /\ builder.val.rust_enums = ~args.val.flag_no_rust_enums
      /\ builder.val.emit_ast = args.val.flag_emit_clang_ast
      /\ builder.val.builtins = args.val.flag_builtins
      /\ builder.val.use_core = args.val.flag_use_core
      /\ builder.val.dont_convert_floats = args.val.flag_dont_convert_floats
      /\ builder.val.convert_macros = args.val.flag_convert_macros
      /\ builder.val.allow_unknown_types = args.val.flag_allow_unknown_types

C9_Witness ==
    /\ builder.some
    /\ args.val.flag_no_derive_debug /\ ~args.val.flag_no_rust_enums
    /\ args.val.flag_builtins /\ ~args.val.flag_use_core
    /\ ~builder.val.derive_debug /\ builder.val.rust_enums
    /\ builder.val.builtins /\ ~builder.val.use_core

-----------------------------------------------------------------------------
(* C10.                                                                    *)

\* C10: a run whose --output is a creatable file path and that ended at a rejected
\* --link value or at generate() returning Err(()) leaves that file existing and
\* empty, whatever it held before.
C10_FileTruncatedOnFailure ==
    (/\ Exited /\ args.some /\ args.val.flag_output \in Creatable
     /\ \/ (LastStep.step = "args_to_opts" /\ LastStep.result = "exit")
        \/ (LastStep.step = "generate" /\ LastStep.result = "Err"))
    => /\ fs[args.val.flag_output].exists
       /\ fs[args.val.flag_output].content = <<>>
       /\ ~Did("write")

C10_Witness ==
    /\ Exited /\ args.some /\ args.val.flag_output \in Creatable
    /\ LastStep.step = "args_to_opts" /\ LastStep.result = "exit"
    /\ fs0[args.val.flag_output].content = OldContent
    /\ fs[args.val.flag_output] = [exists |-> TRUE, content |-> <<>>]

====
